---- MODULE Spec2Model ----
(***************************************************************************)
(* Model of rust-portaudio-sys/build.rs: the build script that either       *)
(* detects a system PortAudio through pkg-config or downloads, builds and   *)
(* installs a static one under OUT_DIR, then emits linker flags.            *)
(*                                                                          *)
(* One run of the script is one process p going through main(), build()    *)
(* and the platform module's download(), build() and print_libs().  Every  *)
(* subprocess and every fallible filesystem call is one step, so that runs  *)
(* sharing a workspace interleave at those boundaries.  The filesystem is   *)
(* shared by all runs and survives them; everything else is per run.        *)
(*                                                                          *)
(* External tools are modelled by what they do to the files the script      *)
(* names: curl -O overwrites PORTAUDIO_TAR, wget without -O keeps an        *)
(* existing PORTAUDIO_TAR and writes a numbered copy beside it, tar needs   *)
(* its archive, rm -rf succeeds on missing operands, make install copies    *)
(* libportaudio.a before portaudio-2.0.pc, rename replaces its target.      *)
(* Cargo always sets OUT_DIR, so the unwrap of line 48 is not a step.       *)
(***************************************************************************)
EXTENDS Naturals, Sequences, FiniteSets

\* Total number of runs started in one behaviour.
MaxRuns == 2
\* Number of build processes that may share the workspace.
NProcs == 2

Procs == 1..NProcs

\* The three cfg-selected platform modules: unix_platform used directly
\* (unix, not linux), platform (linux), platform (windows).
Platforms == {"unix", "linux", "windows"}

VARIABLES
    platform,     \* which cfg branch was compiled
    system_lib,   \* pkg-config on this machine finds portaudio-2.0 >= 19
    live,         \* the processes that may be started against the workspace
    fs,           \* the files the script names
    proc,         \* per process: the run it is executing
    nruns,        \* runs started so far
    panicked      \* some run against this workspace has panicked

vars == <<platform, system_lib, live, fs, proc, nruns, panicked>>

\* The workspace and OUT_DIR before the first run: nothing downloaded,
\* nothing built.
\* An archive is "absent", "partial" (what a failed transfer left) or "whole".
\*   tar_file      ./PORTAUDIO_TAR
\*   tar_dup       ./PORTAUDIO_TAR.1 (wget's name for a second download)
\*   folder        ./PORTAUDIO_FOLDER
\*   static_lib    OUT_DIR/lib/libportaudio.a
\*   pc_file       OUT_DIR/lib/pkgconfig/portaudio-2.0.pc
\*   out_tar       OUT_DIR/PORTAUDIO_TAR                      (windows)
\*   library_lib   OUT_DIR/Library/lib/portaudio_static.lib   (windows)
\*   portaudio_lib OUT_DIR/PORTAUDIO_LIB_DIR/portaudio.lib    (windows)
EmptyFs ==
    [tar_file |-> "absent", tar_dup |-> FALSE, folder |-> FALSE,
     static_lib |-> FALSE, pc_file |-> FALSE,
     out_tar |-> "absent", library_lib |-> FALSE, portaudio_lib |-> FALSE]

\* A process that has not been started, or the fresh state of a run.
\*   pc           the step the run is about to take
\*   cwd          the process working directory
\*   log          the steps taken in this run, in order
\*   flags        what this run told cargo to link
\*   only_static  PORTAUDIO_ONLY_STATIC is set for this run
\*   fault        exit status of the last step: "none" (success), "own" (the
\*                step failed although its input files were there, a
\*                truncated archive included), "missing" (an input file or
\*                directory was not there)
\*   found        result of fs::metadata(static_lib) in build()
\*   had_artifact a static library (either platform's) was in OUT_DIR when
\*                build() looked
\*   disturbed    another run extracted, cleaned up or relocated files while
\*                this run was between its download and the end of its install
FreshRun(toggle) ==
    [pc |-> "main", cwd |-> "root", log |-> <<>>, flags |-> "none",
     only_static |-> toggle, fault |-> "none", found |-> FALSE,
     had_artifact |-> FALSE, disturbed |-> FALSE]

NotStarted == [FreshRun(FALSE) EXCEPT !.pc = "idle"]

Init ==
    /\ platform \in Platforms
    /\ system_lib \in BOOLEAN
    /\ live = {1}
    /\ fs = EmptyFs
    /\ proc = [p \in Procs |-> NotStarted]
    /\ nruns = 0
    /\ panicked = FALSE

\* Several build processes started against the same workspace.
InitConc ==
    /\ platform \in Platforms
    /\ system_lib \in BOOLEAN
    /\ live = Procs
    /\ fs = EmptyFs
    /\ proc = [p \in Procs |-> NotStarted]
    /\ nruns = 0
    /\ panicked = FALSE

Terminated(r) == r.pc \in {"exit_ok", "panic"}

Set(p, r) == [proc EXCEPT ![p] = r]

\* A step was taken: it is appended to the run's log and its exit status is
\* kept.  present: the files or directory the step reads are there; ok: the
\* step does not fail of its own accord.
Exec(r, cmd, ok, present) ==
    [r EXCEPT !.log = Append(@, cmd),
              !.fault = IF ~present THEN "missing"
                        ELSE IF ~ok THEN "own" ELSE "none"]

\* err_to_panic: Ok(x) goes on, Err(e) panics.
err_to_panic(r, next) ==
    [r EXCEPT !.pc = IF r.fault = "none" THEN next ELSE "panic"]

\* run without the test of status.success(): the caller continues whatever
\* the command's exit status.
run_ignores_status(r, next) == [r EXCEPT !.pc = next]

\* run: a command that cannot be started (err_to_panic of status()) or that
\* exits non-zero panics; otherwise the caller continues.
run(r, next) ==
    IF r.fault = "none" THEN err_to_panic(r, next) ELSE [r EXCEPT !.pc = "panic"]

\* The span of a run from the end of its download to the end of its install
\* (unix: make install; windows: the relocation of the prebuilt library).
InWindow(r) ==
    r.pc \in {"tar", "chdir", "configure", "make", "install",
              "rename_tar", "chdir_out", "untar", "rename_lib"}

\* The other processes after p has written or removed shared files: a run in
\* its window is marked, and a process whose working directory was the removed
\* PORTAUDIO_FOLDER is left in a deleted directory.
Others(p, touched, removesFolder) ==
    [q \in Procs |->
        IF q = p \/ ~touched THEN proc[q]
        ELSE [proc[q] EXCEPT
                !.disturbed = @ \/ InWindow(proc[q]),
                !.cwd = IF removesFolder /\ @ = "folder" THEN "deleted" ELSE @]]

\* A panic of any run is remembered for the workspace.
Remember == panicked' = (panicked \/ \E q \in Procs : proc'[q].pc = "panic")

\* Cargo starts the build script in the package directory.
Start(p, toggle) ==
    /\ p \in live
    /\ nruns < MaxRuns
    /\ proc[p].pc = "idle" \/ Terminated(proc[p])
    /\ proc' = Set(p, FreshRun(toggle))
    /\ nruns' = nruns + 1
    /\ Remember
    /\ UNCHANGED <<platform, system_lib, live, fs>>

\* Detection without the return of line 39: main goes on to build() although
\* pkg-config found the library.
Detect_falls_through(r) ==
    [r EXCEPT !.log = Append(@, "detect"),
              !.flags = IF system_lib THEN "system" ELSE @,
              !.pc = "build"]

\* pkg_config::Config::new().atleast_version("19").find("portaudio-2.0"):
\* on success pkg-config has emitted the system library's flags and main
\* returns.
Detect(r) ==
    [r EXCEPT !.log = Append(@, "detect"),
              !.flags = IF system_lib THEN "system" ELSE @,
              !.pc = IF system_lib THEN "exit_ok" ELSE "build"]

\* main without the test of PORTAUDIO_ONLY_STATIC: detection is always tried.
main_ignores_toggle(p) ==
    /\ proc[p].pc = "main"
    /\ proc' = Set(p, Detect(proc[p]))
    /\ Remember
    /\ UNCHANGED <<platform, system_lib, live, fs, nruns>>

main(p) ==
    /\ proc[p].pc = "main"
    /\ proc' = Set(p, IF ~proc[p].only_static
                      THEN Detect(proc[p])
                      ELSE [proc[p] EXCEPT !.pc = "build"])
    /\ Remember
    /\ UNCHANGED <<platform, system_lib, live, fs, nruns>>

\* build(), lines 48-52: the idempotence check on OUT_DIR/lib/libportaudio.a.
build(p) ==
    /\ proc[p].pc = "build"
    /\ proc' = Set(p, [proc[p] EXCEPT
                        !.found = fs.static_lib,
                        !.had_artifact = fs.static_lib \/ fs.portaudio_lib,
                        !.pc = IF fs.static_lib THEN "print_libs" ELSE "download"])
    /\ Remember
    /\ UNCHANGED <<platform, system_lib, live, fs, nruns>>

\* What a transfer writes: the whole archive when it exits zero, otherwise
\* nothing or a truncated file (left).
Transfer(ok, left) == IF ok THEN "whole" ELSE IF left THEN "partial" ELSE "absent"

\* curl URL without -O: the archive goes to standard output and no file is
\* written.
unix_download_to_stdout(f, got) == f

\* curl URL -O: writes (or overwrites) ./PORTAUDIO_TAR.
unix_download(f, got) == IF got = "absent" THEN f ELSE [f EXCEPT !.tar_file = got]

\* wget URL: writes ./PORTAUDIO_TAR, or a numbered copy when that name is
\* taken, leaving the existing file as it is.
linux_download(f, got) ==
    IF got = "absent" THEN f
    ELSE IF f.tar_file # "absent" THEN [f EXCEPT !.tar_dup = TRUE]
    ELSE [f EXCEPT !.tar_file = got]

\* curl URL -O -s -L
windows_download(f, got) == IF got = "absent" THEN f ELSE [f EXCEPT !.tar_file = got]

platform_download(f, got) ==
    CASE platform = "unix" -> unix_download(f, got)
      [] platform = "linux" -> linux_download(f, got)
      [] platform = "windows" -> windows_download(f, got)

\* platform::download()
download(p) ==
    /\ proc[p].pc = "download"
    /\ \E ok \in BOOLEAN, left \in BOOLEAN :
        /\ fs' = platform_download(fs, Transfer(ok, left))
        /\ proc' = Set(p, run(Exec(proc[p], "download", ok, TRUE),
                              IF platform = "windows" THEN "rename_tar" ELSE "tar"))
    /\ Remember
    /\ UNCHANGED <<platform, system_lib, live, nruns>>

\* unix_platform::build, line 96: tar xvf PORTAUDIO_TAR, which creates or
\* overwrites ./PORTAUDIO_FOLDER.  A failed extraction may leave a partial
\* tree (left).
build_tar(p) ==
    /\ proc[p].pc = "tar"
    /\ \E ok \in BOOLEAN, left \in BOOLEAN :
        LET whole == ok /\ fs.tar_file # "partial"
            wrote == fs.tar_file # "absent" /\ (whole \/ left)
            mine == run(Exec(proc[p], "tar", whole, fs.tar_file # "absent"), "chdir")
        IN /\ fs' = IF wrote THEN [fs EXCEPT !.folder = TRUE] ELSE fs
           /\ proc' = [Others(p, wrote, FALSE) EXCEPT ![p] = mine]
    /\ Remember
    /\ UNCHANGED <<platform, system_lib, live, nruns>>

\* line 99: env::set_current_dir(PORTAUDIO_FOLDER)
build_chdir(p) ==
    /\ proc[p].pc = "chdir"
    /\ \E ok \in BOOLEAN :
        LET r == err_to_panic(Exec(proc[p], "chdir", ok, fs.folder), "configure")
        IN proc' = Set(p, [r EXCEPT !.cwd = IF r.fault = "none" THEN "folder" ELSE @])
    /\ Remember
    /\ UNCHANGED <<platform, system_lib, live, fs, nruns>>

\* A command run inside the extracted tree: it cannot be started when the
\* working directory has been removed.
InTree(r, cmd, ok, next) == run(Exec(r, cmd, ok, r.cwd = "folder"), next)

\* lines 102-105: ./configure --disable-shared --enable-static ... --prefix OUT_DIR
build_configure(p) ==
    /\ proc[p].pc = "configure"
    /\ \E ok \in BOOLEAN : proc' = Set(p, InTree(proc[p], "configure", ok, "make"))
    /\ Remember
    /\ UNCHANGED <<platform, system_lib, live, fs, nruns>>

\* line 108: make
build_make(p) ==
    /\ proc[p].pc = "make"
    /\ \E ok \in BOOLEAN : proc' = Set(p, InTree(proc[p], "make", ok, "install"))
    /\ Remember
    /\ UNCHANGED <<platform, system_lib, live, fs, nruns>>

\* What make install has copied under the prefix OUT_DIR: the library first,
\* the pkg-config manifest last; all of it when it exits zero, possibly only
\* the library when it fails on the way (left).
Installed(f, ok, left) ==
    IF ok THEN [f EXCEPT !.static_lib = TRUE, !.pc_file = TRUE]
    ELSE IF left THEN [f EXCEPT !.static_lib = TRUE]
    ELSE f

\* line 111: make install
build_install(p) ==
    /\ proc[p].pc = "install"
    /\ \E ok \in BOOLEAN, left \in BOOLEAN :
        /\ fs' = IF proc[p].cwd = "folder" THEN Installed(fs, ok, left) ELSE fs
        /\ proc' = Set(p, InTree(proc[p], "install", ok, "chdir_back"))
    /\ Remember
    /\ UNCHANGED <<platform, system_lib, live, nruns>>

\* line 114: env::set_current_dir("..")
build_chdir_back(p) ==
    /\ proc[p].pc = "chdir_back"
    /\ \E ok \in BOOLEAN :
        LET r == err_to_panic(Exec(proc[p], "chdir_back", ok, proc[p].cwd = "folder"), "rm")
        IN proc' = Set(p, [r EXCEPT !.cwd = IF r.fault = "none" THEN "root" ELSE @])
    /\ Remember
    /\ UNCHANGED <<platform, system_lib, live, fs, nruns>>

\* What rm -rf PORTAUDIO_TAR PORTAUDIO_FOLDER removes: both operands when it
\* exits zero, possibly only the first when it fails on the way (left).
Removed(f, ok, left) ==
    IF ok THEN [f EXCEPT !.tar_file = "absent", !.folder = FALSE]
    ELSE IF left THEN [f EXCEPT !.tar_file = "absent"]
    ELSE f

\* lines 117-118: rm -rf PORTAUDIO_TAR PORTAUDIO_FOLDER, relative to the
\* working directory, which is the workspace again.
build_rm(p) ==
    /\ proc[p].pc = "rm"
    /\ \E ok \in BOOLEAN, left \in BOOLEAN :
        /\ fs' = Removed(fs, ok, left)
        /\ proc' = [Others(p, fs' # fs, fs.folder /\ ~fs'.folder)
                      EXCEPT ![p] = run(Exec(proc[p], "rm", ok, TRUE), "print_libs")]
    /\ Remember
    /\ UNCHANGED <<platform, system_lib, live, nruns>>

\* windows platform::build, lines 172-177: fs::rename of ./PORTAUDIO_TAR to
\* OUT_DIR/PORTAUDIO_TAR.
win_rename_tar(p) ==
    /\ proc[p].pc = "rename_tar"
    /\ \E ok \in BOOLEAN :
        LET moved == ok /\ fs.tar_file # "absent"
        IN /\ fs' = IF moved
                    THEN [fs EXCEPT !.tar_file = "absent", !.out_tar = fs.tar_file]
                    ELSE fs
           /\ proc' = [Others(p, moved, FALSE) EXCEPT
                         ![p] = err_to_panic(Exec(proc[p], "rename_tar", ok,
                                                  fs.tar_file # "absent"),
                                             "chdir_out")]
    /\ Remember
    /\ UNCHANGED <<platform, system_lib, live, nruns>>

\* line 180: env::set_current_dir(out_dir); nothing changes it back.
win_chdir(p) ==
    /\ proc[p].pc = "chdir_out"
    /\ \E ok \in BOOLEAN :
        LET r == err_to_panic(Exec(proc[p], "chdir_out", ok, TRUE), "untar")
        IN proc' = Set(p, [r EXCEPT !.cwd = IF r.fault = "none" THEN "out_dir" ELSE @])
    /\ Remember
    /\ UNCHANGED <<platform, system_lib, live, fs, nruns>>

\* line 184: tar -xjf OUT_DIR/PORTAUDIO_TAR, which unpacks
\* Library/lib/portaudio_static.lib under OUT_DIR.
win_untar(p) ==
    /\ proc[p].pc = "untar"
    /\ \E ok \in BOOLEAN, left \in BOOLEAN :
        LET whole == ok /\ fs.out_tar # "partial"
            wrote == fs.out_tar # "absent" /\ (whole \/ left)
        IN /\ fs' = IF wrote THEN [fs EXCEPT !.library_lib = TRUE] ELSE fs
           /\ proc' = [Others(p, wrote, FALSE) EXCEPT
                         ![p] = run(Exec(proc[p], "untar", whole, fs.out_tar # "absent"),
                                    "rename_lib")]
    /\ Remember
    /\ UNCHANGED <<platform, system_lib, live, nruns>>

\* lines 187-190: create_dir(OUT_DIR/PORTAUDIO_LIB_DIR), its result dropped,
\* then fs::rename of Library/lib/portaudio_static.lib to
\* PORTAUDIO_LIB_DIR/portaudio.lib, replacing the one of an earlier run.
win_rename_lib(p) ==
    /\ proc[p].pc = "rename_lib"
    /\ \E ok \in BOOLEAN :
        LET moved == ok /\ fs.library_lib
        IN /\ fs' = IF moved
                    THEN [fs EXCEPT !.library_lib = FALSE, !.portaudio_lib = TRUE]
                    ELSE fs
           /\ proc' = [Others(p, moved, FALSE) EXCEPT
                         ![p] = err_to_panic(Exec(proc[p], "rename_lib", ok, fs.library_lib),
                                             "print_libs")]
    /\ Remember
    /\ UNCHANGED <<platform, system_lib, live, nruns>>

\* unix_platform::print_libs: println! of the search path, the static library
\* and the five frameworks.
unix_print_libs(r) ==
    [r EXCEPT !.log = Append(@, "print_libs"), !.flags = "frameworks", !.pc = "exit_ok"]

\* linux print_libs printing the raw flags of unix_platform::print_libs
\* instead of resolving the manifest.
linux_print_libs_raw(r, ok) == unix_print_libs(r)

\* linux print_libs: err_to_panic(pkg_config ... find(OUT_DIR/lib/pkgconfig/
\* portaudio-2.0.pc)); pkg-config prints the flags of the manifest it resolved.
linux_print_libs(r, ok) ==
    LET q == Exec(r, "print_libs", ok, fs.pc_file)
    IN err_to_panic([q EXCEPT !.flags = IF q.fault = "none" THEN "pkgconfig" ELSE @],
                    "exit_ok")

\* windows print_libs: println! of cargo:rustc-link-search=OUT_DIR/PORTAUDIO_LIB_DIR
windows_print_libs(r) ==
    [r EXCEPT !.log = Append(@, "print_libs"), !.flags = "search_path", !.pc = "exit_ok"]

\* build(), line 57: platform::print_libs(out_dir), then main returns.
print_libs(p) ==
    /\ proc[p].pc = "print_libs"
    /\ \E ok \in BOOLEAN :
        proc' = Set(p, CASE platform = "unix" -> unix_print_libs(proc[p])
                         [] platform = "linux" -> linux_print_libs(proc[p], ok)
                         [] platform = "windows" -> windows_print_libs(proc[p]))
    /\ Remember
    /\ UNCHANGED <<platform, system_lib, live, fs, nruns>>

Next ==
    \E p \in Procs :
        \/ \E toggle \in BOOLEAN : Start(p, toggle)
        \/ main(p)
        \/ build(p)
        \/ download(p)
        \/ build_tar(p)
        \/ build_chdir(p)
        \/ build_configure(p)
        \/ build_make(p)
        \/ build_install(p)
        \/ build_chdir_back(p)
        \/ build_rm(p)
        \/ win_rename_tar(p)
        \/ win_chdir(p)
        \/ win_untar(p)
        \/ win_rename_lib(p)
        \/ print_libs(p)

\* Runs of the script one after another against the same workspace.
Spec == Init /\ [][Next]_vars

\* Runs of the script that may overlap in time against the same workspace.
SpecConc == InitConc /\ [][Next]_vars

(***************************************************************************)
(* Vocabulary of the properties.                                            *)
(***************************************************************************)
Steps(r) == {r.log[i] : i \in 1..Len(r.log)}

LastStep(r) == IF r.log = <<>> THEN "none" ELSE r.log[Len(r.log)]

\* The steps of platform::build, by platform.
UnixBuildSteps == {"tar", "chdir", "configure", "make", "install", "chdir_back", "rm"}
WindowsBuildSteps == {"rename_tar", "chdir_out", "untar", "rename_lib"}
BuildSteps == UnixBuildSteps \cup WindowsBuildSteps

DetectorSucceeded(r) == r.flags = "system"
Downloaded(r) == "download" \in Steps(r)
BuilderStarted(r) == Steps(r) \cap {"tar", "rename_tar"} # {}

\* The run has been routed to platform::download: it is about to call it or
\* has called it.
Routed(r) == r.pc = "download" \/ Downloaded(r)

\* The run has gone through the idempotence check of build().
PastCheck(r) == r.pc \notin {"idle", "main", "build"} /\ ~DetectorSucceeded(r)

\* The steps of the run other than the detection.
AfterDetection(r) == SelectSeq(r.log, LAMBDA s : s # "detect")

NoRepeat(r) == \A i, j \in 1..Len(r.log) : r.log[i] = r.log[j] => i = j

\* C1 as stated, in a workspace where no run has failed: every run that has
\* ended either had the Detector succeed or ran the download (and then the
\* build), never both and never neither.
C1_ExactlyOneOfDetectOrDownload ==
    \A p \in Procs :
        ~panicked /\ Terminated(proc[p]) =>
            (DetectorSucceeded(proc[p]) # Downloaded(proc[p]))

\* C1, amended: the Detector succeeding and build() being entered exclude each
\* other and one of them happens in every run that ends; once build() is
\* entered, the download runs exactly when OUT_DIR/lib/libportaudio.a was not
\* found, and platform::build follows every download that succeeded.
C1_DetectXorBuildEntered ==
    \A p \in Procs :
        LET r == proc[p] IN
        /\ DetectorSucceeded(r) => Steps(r) = {"detect"} /\ r.pc = "exit_ok"
        /\ Terminated(r) => (DetectorSucceeded(r) # PastCheck(r))
        /\ PastCheck(r) => (Routed(r) <=> ~r.found)
        /\ Terminated(r) /\ Downloaded(r) =>
              \/ BuilderStarted(r)
              \/ r.pc = "panic" /\ LastStep(r) = "download"

\* C1: a run in which detection missed and the download and the build ran to
\* the end.
C1_Witness ==
    \E p \in Procs :
        /\ proc[p].pc = "exit_ok"
        /\ {"detect", "download", "print_libs"} \subseteq Steps(proc[p])
        /\ BuilderStarted(proc[p])

\* C3 as stated, in a workspace where no run has failed: with
\* PORTAUDIO_ONLY_STATIC set, every run that has ended skipped detection and
\* ran the download.
C3_ToggleAlwaysDownloads ==
    \A p \in Procs :
        ~panicked /\ proc[p].only_static /\ Terminated(proc[p]) =>
            "detect" \notin Steps(proc[p]) /\ Downloaded(proc[p])

\* C3, amended: with PORTAUDIO_ONLY_STATIC set, a run never queries the
\* Detector and always enters build(), whatever the system has installed; it
\* downloads and builds unless OUT_DIR/lib/libportaudio.a is already there.
C3_ToggleSkipsDetection ==
    \A p \in Procs :
        LET r == proc[p] IN
        r.only_static /\ r.pc \notin {"idle", "main"} =>
            /\ "detect" \notin Steps(r)
            /\ ~DetectorSucceeded(r)
            /\ r.pc # "build" => PastCheck(r) /\ (Routed(r) <=> ~r.found)

\* C3: the toggle is set, the system has the library, and the run downloaded
\* and built all the same.
C3_Witness ==
    \E p \in Procs :
        /\ proc[p].only_static /\ system_lib
        /\ proc[p].pc = "exit_ok"
        /\ Downloaded(proc[p]) /\ BuilderStarted(proc[p])

\* C5: no step is taken twice in a run, and a step that fails ends the run on
\* the spot: the run is in panic with that step as its last and has emitted
\* no flags; a run panics for no other reason.
C5_FailFast ==
    \A p \in Procs :
        LET r == proc[p] IN
        /\ NoRepeat(r)
        /\ r.fault # "none" => r.pc = "panic" /\ r.flags = "none"
        /\ r.pc = "panic" => r.fault # "none" /\ r.flags = "none"

\* C5: make exited non-zero after download, tar and configure succeeded.
C5_Witness ==
    \E p \in Procs :
        /\ proc[p].pc = "panic" /\ proc[p].fault = "own"
        /\ AfterDetection(proc[p]) = <<"download", "tar", "chdir", "configure", "make">>

\* C7: on linux a run that has reached the emitter has either resolved
\* OUT_DIR/lib/pkgconfig/portaudio-2.0.pc through pkg-config, which printed
\* the flags, or panicked with nothing printed; it panics whenever the
\* manifest is missing, and it never prints flags of its own.
C7_LinuxEmitterResolvesManifest ==
    platform = "linux" =>
        \A p \in Procs :
            LET r == proc[p] IN
            /\ r.flags \in {"none", "system", "pkgconfig"}
            /\ "print_libs" \in Steps(r) =>
                  /\ r.pc \in {"exit_ok", "panic"}
                  /\ r.pc = "exit_ok" <=> r.flags = "pkgconfig"
                  /\ r.pc = "exit_ok" => fs.pc_file
                  /\ ~fs.pc_file => r.pc = "panic" /\ r.fault = "missing"

\* C7: idempotent re-entry on linux with libportaudio.a present and the
\* manifest missing: the emitter panicked.
C7_Witness ==
    \E p \in Procs :
        /\ platform = "linux"
        /\ proc[p].found /\ fs.static_lib /\ ~fs.pc_file
        /\ LastStep(proc[p]) = "print_libs"
        /\ proc[p].pc = "panic"

\* C10: with runs overlapping in one workspace, a run whose step between
\* download and install found its archive, tree or working directory gone
\* had another run's extraction, cleanup or relocation fall in that span.
C10_MissingInputOnlyByInterference ==
    \A p \in Procs :
        LET r == proc[p] IN
        r.pc = "panic" /\ r.fault = "missing" /\ LastStep(r) \in BuildSteps \ {"chdir_back", "rm"}
            => r.disturbed

\* C10: on a source-build platform a run none of whose steps failed of its own
\* accord panicked between download and make install, another run's cleanup
\* or extraction having fallen in between.
C10_Witness ==
    \E p \in Procs :
        /\ platform \in {"unix", "linux"}
        /\ proc[p].pc = "panic" /\ proc[p].fault = "missing"
        /\ LastStep(proc[p]) \in {"tar", "chdir", "configure", "make", "install"}
        /\ proc[p].disturbed

\* C2 as stated: a run that found in OUT_DIR, when it entered build(), the
\* static library artifact of an earlier successful run takes no download and
\* no build step.
C2_ArtifactPresentSkipsDownloadAndBuild ==
    \A p \in Procs :
        ~panicked /\ proc[p].had_artifact =>
            Steps(proc[p]) \subseteq {"detect", "print_libs"}

\* C4 as stated: a run that panicked in its download or build sequence leaves
\* no OUT_DIR/lib/libportaudio.a behind.
C4_NoArtifactAfterFailedBuild ==
    \A p \in Procs :
        proc[p].pc = "panic" /\ LastStep(proc[p]) \in BuildSteps \cup {"download"}
            => ~fs.static_lib

\* C6 as stated: on the source-build platforms a run without a detected
\* system library and without a prior libportaudio.a, all of whose steps
\* succeeded, took the nine steps in order and ends with the library
\* installed, no archive and no extracted tree in the workspace, and flags
\* emitted.
C6_EndToEndSourceBuild ==
    \A p \in Procs :
        LET r == proc[p] IN
        platform \in {"unix", "linux"} /\ r.pc = "exit_ok"
          /\ ~DetectorSucceeded(r) /\ ~r.found =>
            /\ AfterDetection(r) = <<"download", "tar", "chdir", "configure", "make",
                                     "install", "chdir_back", "rm", "print_libs">>
            /\ fs.static_lib
            /\ fs.tar_file = "absent" /\ ~fs.tar_dup /\ ~fs.folder
            /\ r.flags \in {"frameworks", "pkgconfig"}

\* The static library artifacts in OUT_DIR.
Artifacts == {a \in {"static_lib", "portaudio_lib"} : fs[a]}

\* C8 as stated: after a run that downloaded and built successfully, the path
\* build() tests exists and OUT_DIR holds at most one static library.
C8_CheckedPathExistsAfterBuild ==
    \A p \in Procs :
        proc[p].pc = "exit_ok" /\ Downloaded(proc[p]) =>
            fs.static_lib /\ Cardinality(Artifacts) <= 1

\* C9 as stated: a run that ends successfully ends in the directory it was
\* started in, and a run that has not reached the Builder is still there.
C9_WorkingDirectoryRestored ==
    \A p \in Procs :
        /\ proc[p].pc = "exit_ok" => proc[p].cwd = "root"
        /\ ~BuilderStarted(proc[p]) => proc[p].cwd = "root"

====
